---- MODULE Spec2Model ----
(***************************************************************************)
(* Terrain / hydrology / routing engine of src/terrain.py (class MapGrid). *)
(*                                                                         *)
(* Numbers.  The program computes in float64; the model computes in fixed  *)
(* point on integers:                                                      *)
(*   coordinates and planar distances   1 unit = 1e-3                      *)
(*   elevation                          1 unit = 1e-5                      *)
(*   flow                               1 unit = 1/nvxs (a vertex count)   *)
(*   edge weights, path costs           1 unit = 1e-4                      *)
(* Products are taken with MulDiv, which never leaves 32 bits.             *)
(*                                                                         *)
(* Indexing.  numpy's index -1 is the last entry of an array.  The code    *)
(* uses -1 for a missing neighbour, so elevation[-1] is the sentinel entry *)
(* elevation[nvxs] and x[-1] is x[nvxs-1] for the arrays of length nvxs.   *)
(* ElevAt and Last1 model those reads.                                     *)
(***************************************************************************)
EXTENDS Integers, Sequences, FiniteSets, TLC

VARIABLES elevation, erodability, edge, downhill, flow, slope, elevation_pts,
          city_score, cities, nterr, territories, path_cache, returned,
          forest_score, forests, passes,
          prog, last, tries, draws, queries, result

hydro == <<elevation, erodability, edge, downhill, flow, slope, elevation_pts>>
woods == <<forest_score, forests, passes>>
places == <<city_score, cities, nterr, territories, path_cache, returned,
            forest_score, forests, passes>>
vars == <<elevation, erodability, edge, downhill, flow, slope, elevation_pts,
          city_score, cities, nterr, territories, path_cache, returned,
          forest_score, forests, passes,
          prog, last, tries, draws, queries, result>>

-----------------------------------------------------------------------------
(* Arithmetic *)

Abs(x) == IF x < 0 THEN -x ELSE x
Max2(a, b) == IF a < b THEN b ELSE a
Min2(a, b) == IF a < b THEN a ELSE b

RECURSIVE SetMax(_)
SetMax(S) == LET x == CHOOSE y \in S : TRUE
             IN IF S = {x} THEN x ELSE Max2(x, SetMax(S \ {x}))

RECURSIVE SetMin(_)
SetMin(S) == LET x == CHOOSE y \in S : TRUE
             IN IF S = {x} THEN x ELSE Min2(x, SetMin(S \ {x}))

RECURSIVE SetSum(_, _)
SetSum(f, S) == IF S = {} THEN 0
                ELSE LET x == CHOOSE y \in S : TRUE IN f[x] + SetSum(f, S \ {x})

\* <<q, r>> with a*b = q*c + r and 0 <= r < c, for a, b >= 0 and c > 0.
RECURSIVE MulDivQR(_, _, _)
MulDivQR(a, b, c) ==
    IF b = 0 THEN <<0, 0>>
    ELSE LET h == MulDivQR(a, b \div 2, c)
             r2 == 2 * h[2] + (b % 2) * (a % c)
             q2 == 2 * h[1] + (b % 2) * (a \div c)
         IN <<q2 + (r2 \div c), r2 % c>>

\* a * b / c, rounded toward zero
MulDiv(a, b, c) ==
    LET s == IF (a < 0) = (b < 0) THEN 1 ELSE -1
        x == Abs(a)
        y == Abs(b)
    IN IF x < 30000 /\ y < 30000 THEN s * ((x * y) \div c)
       ELSE s * MulDivQR(x, y, c)[1]

\* floor of the square root, by bisection on lo*lo <= x < hi*hi
RECURSIVE ISqrtR(_, _, _)
ISqrtR(x, lo, hi) ==
    IF hi - lo <= 1 THEN lo
    ELSE LET mid == (lo + hi) \div 2
         IN IF mid * mid <= x THEN ISqrtR(x, mid, hi) ELSE ISqrtR(x, lo, mid)

ISqrt(x) == ISqrtR(x, 0, 46341)

-----------------------------------------------------------------------------
(* The mesh: one outcome of build_grid.  Seven sites, three of them on the *)
(* hull, give nine Voronoi vertices.  Vertices 3, 6, 7 have an infinite    *)
(* ridge (a -1 slot); 1, 2, 5 are their neighbours; 0, 4, 8 are interior.  *)

nvxs == 9
npts == 7
V == 0 .. (nvxs - 1)

adj_mat == [v \in V |->
    CASE v = 0 -> <<4, 8, 1>>
      [] v = 1 -> <<0, 3, 7>>
      [] v = 2 -> <<4, 3, 6>>
      [] v = 3 -> <<-1, 1, 2>>
      [] v = 4 -> <<0, 8, 2>>
      [] v = 5 -> <<8, 6, 7>>
      [] v = 6 -> <<2, -1, 5>>
      [] v = 7 -> <<5, 1, -1>>
      [] v = 8 -> <<0, 4, 5>>]

adj_vxs == adj_mat

vxs == [v \in V |->
    CASE v = 0 -> <<550, 400>>
      [] v = 1 -> <<800, 200>>
      [] v = 2 -> <<200, 800>>
      [] v = 3 -> <<100, 100>>
      [] v = 4 -> <<400, 550>>
      [] v = 5 -> <<850, 850>>
      [] v = 6 -> <<420, 940>>
      [] v = 7 -> <<970, 450>>
      [] v = 8 -> <<580, 580>>]

\* regions[p]: the vertices bounding the cell of site p (-1: unbounded cell)
regions == [p \in 0 .. (npts - 1) |->
    CASE p = 0 -> <<0, 4, 8>>
      [] p = 1 -> <<3, 1, 0, 4, 2>>
      [] p = 2 -> <<6, 2, 4, 8, 5>>
      [] p = 3 -> <<7, 5, 8, 0, 1>>
      [] p = 4 -> <<-1, 3, 1, 7>>
      [] p = 5 -> <<-1, 3, 2, 6>>
      [] p = 6 -> <<-1, 6, 5, 7>>]

\* calc_edges: a vertex is on the boundary iff one of its slots is missing
calc_edges == [u \in V |-> \E k \in 1 .. 3 : adj_vxs[u][k] = -1]

\* distance(a, b) for two points
distance(a, b) == ISqrt((a[1] - b[1]) * (a[1] - b[1]) + (a[2] - b[2]) * (a[2] - b[2]))

\* the planar distances of the mesh, computed once
dist_vxs == [u \in V |-> [v \in V |-> distance(vxs[u], vxs[v])]]

\* x[i] as numpy reads it when i may be -1: x has length nvxs
Last1(x, i) == IF i = -1 THEN x[nvxs - 1] ELSE x[i]

\* elevation[i] as numpy reads it when i may be -1: the sentinel entry
ElevAt(e, i) == IF i = -1 THEN e[nvxs] ELSE e[i]

-----------------------------------------------------------------------------
(* Hydrology: pure parts *)

Eps == 1                    \* 1e-5, the perturbation of infill
SillInit == 1000000000      \* h = 10000 of find_lowest_sill, in elevation units
Unit == 100000              \* 1.0 in elevation units
FieldCap == 200000          \* the largest |elevation| the model follows

\* a variant of calc_downhill that keeps a lowest neighbour of equal height
downhill_not_strict(e, edg) == [v \in V |->
    LET row == adj_mat[v]
        k0 == CHOOSE k \in 1 .. 3 :
                /\ \A j \in 1 .. 3 : ElevAt(e, row[k]) <= ElevAt(e, row[j])
                /\ \A j \in 1 .. (k - 1) : ElevAt(e, row[j]) > ElevAt(e, row[k])
        d == row[k0]
    IN IF edg[v] THEN -1
       ELSE IF e[v] < ElevAt(e, d) THEN -1
       ELSE d]

\* calc_downhill: the lowest neighbour (first of equals, a missing slot reads
\* the sentinel), kept only if strictly lower; boundary vertices get none.
downhill_of(e, edg) == [v \in V |->
    LET row == adj_mat[v]
        k0 == CHOOSE k \in 1 .. 3 :
                /\ \A j \in 1 .. 3 : ElevAt(e, row[k]) <= ElevAt(e, row[j])
                /\ \A j \in 1 .. (k - 1) : ElevAt(e, row[j]) > ElevAt(e, row[k])
        d == row[k0]
    IN IF edg[v] THEN -1
       ELSE IF e[v] <= ElevAt(e, d) THEN -1
       ELSE d]

\* spsolve((I - T), rain) with T[i, j] = 1 where i = downhill[j], in units
\* of 1/n: the fixed point of f = rain + T f
RECURSIVE spsolve(_, _)
spsolve(dh, f) ==
    LET g == [v \in V |-> 1 + SetSum(f, {u \in V : dh[u] = v})]
    IN IF g = f THEN f ELSE spsolve(dh, g)

\* a variant of calc_flow that leaves the flow of the sea vertices
flow_with_sea(e, dh) == spsolve(dh, [v \in V |-> 1])

flow_of(e, dh) ==
    LET f == spsolve(dh, [v \in V |-> 1])
    IN [v \in V |-> IF e[v] <= 0 THEN 0 ELSE f[v]]

\* calc_slopes, in units of 1e-5
slope_of(e, dh) == [v \in V |->
    IF dh[v] = -1 THEN 0
    ELSE MulDiv(e[v] - e[dh[v]], 1000, dist_vxs[v][dh[v]])]

\* flow ** 0.5 scaled by 1000 (flow is a count of vertices out of nvxs)
sqrt_flow(f, v) == ISqrt((f[v] * 1000000) \div nvxs)

\* erode: |rate| in units of 1e-4; rate = 1000 * riverrate + sloperate, both
\* terms <= 0 because slope >= 0
erode_rate(e, f, s, erod) == [v \in V |->
    IF e[v] <= 0 THEN 0
    ELSE MulDiv(sqrt_flow(f, v), s[v], 10) + MulDiv(s[v], s[v], 10 * Unit) * erod[v]]

\* erode: elevation[:-1] += rate / abs(rate).max() * max_step
erode_of(e, f, s, erod, max_step) ==
    LET mag == erode_rate(e, f, s, erod)
        top == SetMax({mag[v] : v \in V})
    IN [i \in 0 .. nvxs |->
          IF i = nvxs THEN e[i] ELSE e[i] - MulDiv(mag[i], max_step, top)]

\* get_sinks: every land vertex gets the root its downhill chain ends in when
\* that root is a land, non-boundary vertex without downhill, else -1
RECURSIVE sinks_closure(_, _)
sinks_closure(sinks, water) ==
    LET newsinks == [v \in V |->
            IF sinks[v] = -1 THEN -1
            ELSE IF ~water[v] THEN Last1(sinks, sinks[v])
            ELSE sinks[v]]
    IN IF newsinks = sinks THEN sinks ELSE sinks_closure(newsinks, water)

\* a variant of get_sinks that roots the sinks at boundary vertices only
get_sinks_on_edge(e, dh, edg) ==
    LET water == [v \in V |-> e[v] <= 0]
        sinks0 == [v \in V |->
            IF water[v] THEN -1
            ELSE IF dh[v] = -1 /\ edg[v] THEN v
            ELSE dh[v]]
    IN sinks_closure(sinks0, water)

get_sinks(e, dh, edg) ==
    LET water == [v \in V |-> e[v] <= 0]
        sinks0 == [v \in V |->
            IF water[v] THEN -1
            ELSE IF dh[v] = -1 /\ ~edg[v] THEN v
            ELSE dh[v]]
    IN sinks_closure(sinks0, water)

\* find_lowest_sill: the pairs (u, slot k) the loop visits, u a sink vertex
\* and adj_vxs[u][k] a neighbour outside every sink
sill_cands(sinks) ==
    {c \in V \X (1 .. 3) :
        /\ sinks[c[1]] # -1
        /\ adj_vxs[c[1]][c[2]] # -1
        /\ sinks[adj_vxs[c[1]][c[2]]] = -1}

\* a variant of the sill height that takes the lower end of the edge
sill_depth(e, c) == Min2(e[adj_vxs[c[1]][c[2]]], e[c[1]])

sill_height(e, c) == Max2(e[adj_vxs[c[1]][c[2]]], e[c[1]])

\* the first pair, in visiting order, of least height below h = 10000; {} if none
find_lowest_sill(e, sinks) ==
    {c \in sill_cands(sinks) :
        /\ sill_height(e, c) < SillInit
        /\ \A d \in sill_cands(sinks) :
              \/ sill_height(e, d) > sill_height(e, c)
              \/ /\ sill_height(e, d) = sill_height(e, c)
                 /\ \/ d[1] > c[1]
                    \/ d[1] = c[1] /\ d[2] >= c[2]}

\* a variant of infill's raise that lifts the basin to the sill height
\* without the slope term and without the 1e-5
infill_raise_flat(e, dh, sinks, c) ==
    LET u == c[1]
        v == adj_vxs[u][c[2]]
        h == sill_height(e, c)
        sink == sinks[u]
        e1 == IF dh[v] # -1 THEN [e EXCEPT ![v] = e[dh[v]] + Eps] ELSE e
    IN [i \in 0 .. nvxs |->
          IF i < nvxs /\ sinks[i] = sink
          THEN (IF e1[i] < h THEN h ELSE e1[i])
          ELSE e1[i]]

\* one iteration of infill's loop on the sill c: lower v onto its downhill,
\* raise the basin of u, keep the slope toward the sill
infill_raise(e, dh, sinks, c) ==
    LET u == c[1]
        v == adj_vxs[u][c[2]]
        h == sill_height(e, c)
        sink == sinks[u]
        e1 == IF dh[v] # -1 THEN [e EXCEPT ![v] = e[dh[v]] + Eps] ELSE e
    IN [i \in 0 .. nvxs |->
          IF i < nvxs /\ sinks[i] = sink
          THEN (IF e1[i] < h THEN h + ((h - e1[i]) \div 1000) ELSE e1[i]) + Eps
          ELSE e1[i]]

\* the k-th smallest entry (k from 0) of the whole array, sentinel included
kth(e, k) == CHOOSE x \in {e[i] : i \in 0 .. nvxs} :
    /\ Cardinality({i \in 0 .. nvxs : e[i] < x}) <= k
    /\ Cardinality({i \in 0 .. nvxs : e[i] <= x}) > k

\* np.percentile (linear interpolation) over the nvxs + 1 entries
percentile(e, perc) ==
    LET pos == perc * nvxs
        lo == pos \div 100
        fr == pos % 100
    IN IF fr = 0 THEN kth(e, lo)
       ELSE kth(e, lo) + MulDiv(kth(e, lo + 1) - kth(e, lo), fr, 100)

elev_max(e) == SetMax({e[i] : i \in 0 .. nvxs})
elev_min(e) == SetMin({e[i] : i \in 0 .. nvxs})

\* raise_sealevel, for a field whose maximum stays above the percentile
raise_sealevel_of(e, perc) ==
    LET maxheight == elev_max(e)
        p == percentile(e, perc)
        newmax == maxheight - p
    IN [i \in 0 .. nvxs |->
          IF i = nvxs THEN 0 ELSE MulDiv(e[i] - p, maxheight, newmax)]

\* the rescaled field of raise_sealevel stays within FieldCap
in_range(e, perc) ==
    LET p == percentile(e, perc)
        far == Max2(elev_max(e) - p, p - elev_min(e))
    IN MulDiv(far, Abs(elev_max(e)), FieldCap) <= elev_max(e) - p

\* normalize_elevation: shift the whole array to minimum 0, scale to
\* maximum 1, take the square root
normalize_elevation_of(e) ==
    LET lo == elev_min(e)
        hi == elev_max(e) - lo
    IN [i \in 0 .. nvxs |->
          LET x == IF hi > 0 THEN MulDiv(e[i] - lo, Unit, hi) ELSE e[i] - lo
          IN ISqrt(x * 1000) * 10]

\* calc_elevation_pts: the mean elevation of each cell's vertices
elevation_pts_of(e) == [p \in 0 .. (npts - 1) |->
    LET r == regions[p]
        s == [k \in 1 .. Len(r) |-> ElevAt(e, r[k])]
    IN SetSum(s, 1 .. Len(r)) \div Len(r)]

-----------------------------------------------------------------------------
(* The pipeline.  prog is the sequence of calls still to run, each          *)
(* <<caller, operation, argument>>; last is the call that has just run.     *)
(* infill's loop runs one iteration per step and stays at the head of prog  *)
(* until get_sinks finds no sink; tries counts the raises of the infill     *)
(* call that is running or ran last.                                        *)

NumErosion == 1     \* iterations of a do_erosion run (the code: 20 .. 250)
MaxTries == 12      \* iterations of infill's loop the model follows

\* one iteration of do_erosion's loop
erosion_iteration(rate) ==
    << <<"do_erosion", "calc_downhill", 0>>, <<"do_erosion", "calc_flow", 0>>,
       <<"do_erosion", "calc_slopes", 0>>, <<"do_erosion", "erode", rate>>,
       <<"do_erosion", "infill", 0>>, <<"do_erosion", "pin", 0>> >>

RECURSIVE do_erosion(_, _)
do_erosion(n, rate) ==
    IF n = 0 THEN <<>> ELSE erosion_iteration(rate) \o do_erosion(n - 1, rate)

finalize ==
    << <<"finalize", "calc_downhill", 0>>, <<"finalize", "infill", 0>>,
       <<"finalize", "calc_downhill", 0>>, <<"finalize", "calc_flow", 0>>,
       <<"finalize", "calc_slopes", 0>>, <<"finalize", "calc_elevation_pts", 0>> >>

\* shore_heightmap from normalize_elevation on: sea level twice, erosion between
shore_heightmap(sealevel, sealevel2) ==
    << <<"shore_heightmap", "normalize_elevation", 0>>,
       <<"shore_heightmap", "raise_sealevel", sealevel>> >>
    \o do_erosion(NumErosion, 2500)
    \o << <<"shore_heightmap", "raise_sealevel", sealevel2>> >>

\* island_heightmap after an eruption: erosion burst, then sea level
island_heightmap ==
    do_erosion(NumErosion, 500) \o << <<"island_heightmap", "raise_sealevel", 80>> >>

\* desert_heightmap from its erosion run on: erosion, then the shift that
\* puts the lowest vertex at 0.1
desert_heightmap ==
    do_erosion(NumErosion, 500) \o << <<"desert_heightmap", "shift", 10000>> >>

Running(op) == prog # <<>> /\ Head(prog)[2] = op

Pop == /\ prog' = Tail(prog)
       /\ last' = <<Head(prog)[1], Head(prog)[2]>>
       /\ UNCHANGED <<tries, draws, queries, result>>

\* a hydrology call returns: nothing of the settlement or routing state moves
Step == Pop /\ UNCHANGED places

\* the call raised or left a non-finite field: the generation attempt ends
Raise(why) == /\ prog' = <<>>
              /\ last' = <<Head(prog)[1], Head(prog)[2]>>
              /\ result' = why
              /\ UNCHANGED <<tries, draws, queries>>

Stop(why) == Raise(why) /\ UNCHANGED places

calc_downhill ==
    /\ Running("calc_downhill")
    /\ downhill' = downhill_of(elevation, edge)
    /\ Step
    /\ UNCHANGED <<elevation, erodability, edge, flow, slope, elevation_pts>>

calc_flow ==
    /\ Running("calc_flow")
    /\ flow' = flow_of(elevation, downhill)
    /\ Step
    /\ UNCHANGED <<elevation, erodability, edge, downhill, slope, elevation_pts>>

calc_slopes ==
    /\ Running("calc_slopes")
    /\ slope' = slope_of(elevation, downhill)
    /\ Step
    /\ UNCHANGED <<elevation, erodability, edge, downhill, flow, elevation_pts>>

\* erode; with every rate 0 the division 0/0 leaves a field of NaN
erode ==
    /\ Running("erode")
    /\ IF \A v \in V : erode_rate(elevation, flow, slope, erodability)[v] = 0
       THEN Stop("nan") /\ UNCHANGED elevation
       ELSE /\ elevation' = erode_of(elevation, flow, slope, erodability, Head(prog)[3])
            /\ Step
    /\ UNCHANGED <<erodability, edge, downhill, flow, slope, elevation_pts>>

\* infill: one pass of the while loop
infill ==
    /\ Running("infill")
    /\ LET sinks == get_sinks(elevation, downhill, edge)
           best == find_lowest_sill(elevation, sinks)
       IN IF \A v \in V : sinks[v] = -1
          THEN /\ prog' = Tail(prog)
               /\ last' = <<Head(prog)[1], "infill">>
               /\ tries' = IF last[2] = "infill_iteration" THEN tries ELSE 0
               /\ UNCHANGED <<elevation, downhill, result, draws, queries, places>>
          ELSE IF best = {}
          THEN /\ Stop("AssertionError")
               /\ UNCHANGED <<elevation, downhill>>
          ELSE /\ last[2] = "infill_iteration" => tries < MaxTries
               /\ \E c \in best :
                    /\ elevation' = infill_raise(elevation, downhill, sinks, c)
                    /\ downhill' = downhill_of(elevation', edge)
               /\ tries' = IF last[2] = "infill_iteration" THEN tries + 1 ELSE 1
               /\ last' = <<Head(prog)[1], "infill_iteration">>
               /\ UNCHANGED <<prog, result, draws, queries, places>>
    /\ UNCHANGED <<erodability, edge, flow, slope, elevation_pts>>

\* do_erosion's last line: self.elevation[-1] = 0
pin ==
    /\ Running("pin")
    /\ elevation' = [elevation EXCEPT ![nvxs] = 0]
    /\ Step
    /\ UNCHANGED <<erodability, edge, downhill, flow, slope, elevation_pts>>

\* raise_sealevel; a field whose percentile is its maximum divides by zero.
\* The model follows the rescaled field while it stays within FieldCap.
raise_sealevel ==
    /\ Running("raise_sealevel")
    /\ IF elev_max(elevation) = percentile(elevation, Head(prog)[3])
       THEN Stop("nan") /\ UNCHANGED elevation
       ELSE /\ in_range(elevation, Head(prog)[3])
            /\ elevation' = raise_sealevel_of(elevation, Head(prog)[3])
            /\ Step
    /\ UNCHANGED <<erodability, edge, downhill, flow, slope, elevation_pts>>

normalize_elevation ==
    /\ Running("normalize_elevation")
    /\ elevation' = normalize_elevation_of(elevation)
    /\ Step
    /\ UNCHANGED <<erodability, edge, downhill, flow, slope, elevation_pts>>

\* self.elevation[:-1] -= self.elevation[:-1].min() - 0.1
shift ==
    /\ Running("shift")
    /\ elevation' = [i \in 0 .. nvxs |->
          IF i = nvxs THEN elevation[i]
          ELSE elevation[i] - (SetMin({elevation[v] : v \in V}) - Head(prog)[3])]
    /\ Step
    /\ UNCHANGED <<erodability, edge, downhill, flow, slope, elevation_pts>>

calc_elevation_pts ==
    /\ Running("calc_elevation_pts")
    /\ elevation_pts' = elevation_pts_of(elevation)
    /\ Step
    /\ UNCHANGED <<elevation, erodability, edge, downhill, flow, slope>>

-----------------------------------------------------------------------------
(* Settlements and territories *)

sizemap == 5        \* the code: 15; the mesh and 2 ** (sizemap - 3) scale with it
NumCities == 2      \* cities place_cities is asked for (the code: 5 .. 19)
MaxDraws == 4       \* iterations of place_cities' loop the model follows

\* tuples as Python compares them: first difference decides
RECURSIVE TupleLess(_, _)
TupleLess(a, b) ==
    IF a = <<>> \/ b = <<>> THEN a = <<>> /\ b # <<>>
    ELSE IF Head(a) # Head(b) THEN Head(a) < Head(b)
    ELSE TupleLess(Tail(a), Tail(b))

\* a variant of heappop that breaks a tie in cost by the greater (vx, city)
heappop_high(q) == CHOOSE t \in q : \A x \in q :
    x = t \/ t[1] < x[1] \/ (t[1] = x[1] /\ TupleLess(Tail(x), Tail(t)))

\* heapq.heappop: the least tuple of the queue
heappop(q) == CHOOSE t \in q : \A x \in q : x = t \/ TupleLess(t, x)

\* A score is <<hi, lo>> and stands for hi * 1e7 + lo * 1e-5: the sentinel
\* -9999999 is <<-1, Unit>>, the penalty 0.01 / 1e-9 at distance 0 is <<1, 0>>.
score_init(e, f) == [v \in V |->
    IF e[v] <= 0 THEN <<-1, Unit>> ELSE <<0, sqrt_flow(f, v) * 100>>]

\* np.argmax: the first vertex of greatest score
argmax(score) == CHOOSE v \in V :
    /\ \A u \in V : ~TupleLess(score[v], score[u])
    /\ \A u \in V : u < v => TupleLess(score[u], score[v])

\* city_score -= 0.01 * 1 / (distance(vxs, vxs[newcity]) + 1e-9)
penalize(score, newcity) == [v \in V |->
    IF dist_vxs[v][newcity] = 0 THEN <<score[v][1] - 1, score[v][2]>>
    ELSE <<score[v][1], score[v][2] - (1000000 \div dist_vxs[v][newcity])>>]

\* city_min_ax < x < city_max_ax on both axes (0.05, 0.95)
central(v) == /\ 50 < vxs[v][1] /\ vxs[v][1] < 950
              /\ 50 < vxs[v][2] /\ vxs[v][2] < 950

\* edge_weight(u, v, territory), in units of 1e-4; v may be the missing slot -1
edge_weight(e, f, dh, u, v, territory) ==
    LET horiz == Last1(dist_vxs[u], v)
        vert == ElevAt(e, v) - e[u]
        climb == IF vert < 0 THEN MulDiv(vert, vert, 100000 * horiz)
                 ELSE MulDiv(vert, vert, 1000 * horiz)
        plain == 10 * horiz + climb
        w == IF territory THEN plain + horiz * sqrt_flow(f, u)
             ELSE IF dh[u] = v \/ Last1(dh, v) = u THEN (9 * plain) \div 10
             ELSE plain
    IN IF (e[u] <= 0) # (ElevAt(e, v) <= 0)
       THEN 10 * horiz * (IF territory THEN 2000 ELSE 200)
       ELSE IF e[u] <= 0 THEN 10 * horiz
       ELSE w

\* a variant of grow_territory's loop that pushes the cost of the last edge
\* instead of the accumulated cost
RECURSIVE grow_last_edge(_, _, _, _, _)
grow_last_edge(e, f, dh, done, q) ==
    IF q = {} THEN done
    ELSE LET t == heappop(q)
             vx == t[2]
         IN IF done[vx] # -1 THEN grow_last_edge(e, f, dh, done, q \ {t})
            ELSE LET done1 == [done EXCEPT ![vx] = t[3]]
                     slots == {k \in 1 .. 3 :
                                  /\ adj_vxs[vx][k] # -1
                                  /\ done1[adj_vxs[vx][k]] = -1}
                     pushed == {<<edge_weight(e, f, dh, adj_vxs[vx][k], vx, TRUE),
                                  adj_vxs[vx][k], t[3]>> : k \in slots}
                 IN grow_last_edge(e, f, dh, done1, (q \ {t}) \cup pushed)

\* grow_territory's loop: q holds the tuples (dist, vx, city)
RECURSIVE grow(_, _, _, _, _)
grow(e, f, dh, done, q) ==
    IF q = {} THEN done
    ELSE LET t == heappop(q)
             vx == t[2]
         IN IF done[vx] # -1 THEN grow(e, f, dh, done, q \ {t})
            ELSE LET done1 == [done EXCEPT ![vx] = t[3]]
                     slots == {k \in 1 .. 3 :
                                  /\ adj_vxs[vx][k] # -1
                                  /\ done1[adj_vxs[vx][k]] = -1}
                     pushed == {<<t[1] + edge_weight(e, f, dh, adj_vxs[vx][k], vx, TRUE),
                                  adj_vxs[vx][k], t[3]>> : k \in slots}
                 IN grow(e, f, dh, done1, (q \ {t}) \cup pushed)

\* cities[:n]
seeds(cs, n) == {cs[i] : i \in 1 .. Min2(n, Len(cs))}

\* a variant of grow_territory that seeds the queue with the first city only
grow_from_first(e, f, dh, cs, n) ==
    grow(e, f, dh, [v \in V |-> -1], {<<0, c, c>> : c \in seeds(cs, Min2(n, 1))})

grow_territory_of(e, f, dh, cs, n) ==
    grow(e, f, dh, [v \in V |-> -1], {<<0, c, c>> : c \in seeds(cs, n)})

\* the property big_cities
big_cities(cs, terr) == SelectSeq(cs, LAMBDA c : terr[c] = c)

\* place_cities up to its loop: the score field and the empty list
place_cities ==
    /\ Running("place_cities")
    /\ city_score' = score_init(elevation, flow)
    /\ cities' = <<>>
    /\ Pop
    /\ UNCHANGED <<hydro, woods, nterr, territories, path_cache, returned>>

\* one pass of place_cities' while loop; accept is the random draw
place_cities_loop ==
    /\ Running("place_cities_loop")
    /\ IF Len(cities) >= Head(prog)[3]
       THEN /\ prog' = Tail(prog)
            /\ last' = <<"place_cities", "return">>
            /\ UNCHANGED <<city_score, cities, draws>>
       ELSE /\ draws < MaxDraws
            /\ LET newcity == argmax(city_score)
               IN \E accept \in (IF Len(cities) = 0 THEN {TRUE} ELSE BOOLEAN) :
                    /\ cities' = IF accept /\ central(newcity)
                                 THEN Append(cities, newcity) ELSE cities
                    /\ city_score' = penalize(city_score, newcity)
            /\ draws' = draws + 1
            /\ last' = <<"place_cities", "iteration">>
            /\ UNCHANGED prog
    /\ UNCHANGED <<hydro, woods, nterr, territories, path_cache, returned, tries, queries, result>>

\* grow_territory(n), n drawn by the caller (np.random.randint)
grow_territory ==
    /\ Running("grow_territory")
    /\ \E n \in 1 .. (NumCities + 1) :
         /\ nterr' = n
         /\ territories' = grow_territory_of(elevation, flow, downhill, cities, n)
    /\ Pop
    /\ UNCHANGED <<hydro, woods, city_score, cities, path_cache, returned>>

-----------------------------------------------------------------------------
(* Forests *)

MaxPasses == 12     \* passes of place_forests' loop the model follows

\* the argument n of place_forests: desert draws 2 .. 4, the other modes 40 .. 79
ForestCounts == {4, 20, 45}

\* the score -9999999 of a vertex that is out of the running
forest_sentinel == 0 - 9999999

\* forest_score = flow ** 0.5, the sentinel on sea vertices
forest_score_init(e, f) == [v \in V |->
    IF e[v] <= 0 THEN forest_sentinel ELSE sqrt_flow(f, v)]

\* np.argmax on numbers: the first vertex of greatest score
argmax_first(score) == CHOOSE v \in V :
    /\ \A u \in V : score[u] <= score[v]
    /\ \A u \in V : u < v => score[u] < score[v]

\* a variant of the disqualification that leaves the score as it is
still_candidate(score, v) == score

\* forest_score[newforests] = -9999999
disqualify(score, v) == [score EXCEPT ![v] = forest_sentinel]

\* the vertices of every cell that has v on its boundary; an unbounded cell
\* brings its -1 along
cells_of(v) == UNION {{regions[p][k] : k \in 1 .. Len(regions[p])} :
                         p \in {q \in 0 .. (npts - 1) :
                                   \E k \in 1 .. Len(regions[q]) : regions[q][k] = v}}

\* len(self.forests) < (2 ** sizemap) * n / 100
below_quota(fs, n) == 100 * Cardinality(fs) < (2 ^ sizemap) * n

\* forests_min_ax < x < forests_max_ax on both axes (0, 1)
in_map(v) == /\ 0 < vxs[v][1] /\ vxs[v][1] < 1000
             /\ 0 < vxs[v][2] /\ vxs[v][2] < 1000

\* place_forests up to its loop: the score field and the empty set
place_forests ==
    /\ Running("place_forests")
    /\ forest_score' = forest_score_init(elevation, flow)
    /\ forests' = {}
    /\ passes' = 0
    /\ Pop
    /\ UNCHANGED <<hydro, city_score, cities, nterr, territories, path_cache, returned>>

\* one test of place_forests' while condition and, when it holds, one pass
\* of the body; accept is the random draw
place_forests_loop ==
    /\ Running("place_forests_loop")
    /\ LET newforests == argmax_first(forest_score)
       IN IF ~below_quota(forests, Head(prog)[3])
          THEN /\ prog' = Tail(prog)
               /\ last' = <<"place_forests", "return">>
               /\ UNCHANGED <<forest_score, forests, passes>>
          ELSE IF forest_score[newforests] = forest_sentinel
          THEN /\ passes < MaxPasses
               /\ prog' = Tail(prog)
               /\ last' = <<"place_forests", "return">>
               /\ passes' = passes + 1
               /\ UNCHANGED <<forest_score, forests>>
          ELSE /\ passes < MaxPasses
               /\ forest_score' = disqualify(forest_score, newforests)
               /\ \E accept \in (IF forests = {} THEN {TRUE} ELSE BOOLEAN) :
                    forests' = IF accept /\ in_map(newforests)
                               THEN forests \cup cells_of(newforests) ELSE forests
               /\ passes' = passes + 1
               /\ last' = <<"place_forests", "iteration">>
               /\ UNCHANGED prog
    /\ UNCHANGED <<hydro, city_score, cities, nterr, territories, path_cache, returned,
                   tries, draws, queries, result>>

-----------------------------------------------------------------------------
(* Routing.  The graph of fill_path_cache has the nodes 0 .. n + 1; node n  *)
(* is the near corner and node n + 1 the far corner.  The cache keys        *)
(* "topleft" and "bottomright" are written n and n + 1 here, so that        *)
(* isinstance(x, str) reads x >= nvxs.                                      *)

ExtendRounds == 1   \* rounds of extend_area (the code: 10, on a mesh of 2 ** 16 vertices)
MaxQueries == 2     \* shortest_path calls the model follows

topleft == nvxs
bottomright == nvxs + 1
Nodes == 0 .. (nvxs + 1)
NoEdge == 0 - 1
Far == 1000 * Unit   \* numpy.inf: above every path cost

\* extend_area: n rounds of area[adj[adj != -1]] = True, on the caller's array
RECURSIVE extend_area(_, _)
extend_area(area, n) ==
    IF n = 0 THEN area
    ELSE extend_area([v \in V |->
            area[v] \/ \E u \in V : area[u] /\ \E k \in 1 .. 3 : adj_mat[u][k] = v], n - 1)

\* the half-plane tests of the two anchors
near_corner(u) == vxs[u][1] - vxs[u][2] < 0 - 500
far_corner(u) == vxs[u][1] - vxs[u][2] > 500

\* the travel weight of slot k of u, -1 for a missing slot
travel_weights(e, f, dh) == [u \in V |-> [k \in 1 .. 3 |->
    edge_weight(e, f, dh, u, adj_vxs[u][k], FALSE)]]

\* the matrix g of fill_path_cache; g[u, -1] is column n + 1; 1e-12 reads 0
graph(e, f, dh, edg) ==
    LET W == travel_weights(e, f, dh)
        kept(u, k) == ~(edg[u] /\ Last1(edg, adj_vxs[u][k]))
    IN [u \in Nodes |-> [v \in Nodes |->
          IF u = topleft
          THEN (IF v \in V /\ edg[v] /\ near_corner(v) THEN 0 ELSE NoEdge)
          ELSE IF u = bottomright THEN NoEdge
          ELSE IF v = bottomright
          THEN (IF edg[u] /\ far_corner(u) THEN 0
                ELSE IF \E k \in 1 .. 3 : adj_vxs[u][k] = -1 /\ kept(u, k)
                THEN W[u][CHOOSE k \in 1 .. 3 :
                            /\ adj_vxs[u][k] = -1 /\ kept(u, k)
                            /\ \A j \in (k + 1) .. 3 : ~(adj_vxs[u][j] = -1 /\ kept(u, j))]
                ELSE NoEdge)
          ELSE IF \E k \in 1 .. 3 : adj_vxs[u][k] = v /\ kept(u, k)
          THEN W[u][CHOOSE k \in 1 .. 3 : adj_vxs[u][k] = v /\ kept(u, k)]
          ELSE NoEdge]]

\* csgraph.dijkstra from one source: the least distances, Far when unreachable
RECURSIVE relax(_, _)
relax(g, D) ==
    LET D1 == [x \in Nodes |->
            SetMin({D[x]} \cup {D[y] + g[y][x] : y \in {z \in Nodes : g[z][x] # NoEdge /\ D[z] < Far}})]
    IN IF D1 = D THEN D ELSE relax(g, D1)

dijkstra(g, a) == relax(g, [x \in Nodes |-> IF x = a THEN 0 ELSE Far])

\* the paths the predecessor walk of fill_path_cache can produce from a to b:
\* every walk back along predecessors of least distance
RECURSIVE pred_paths(_, _, _, _)
pred_paths(g, D, a, b) ==
    IF b = a THEN {<<a>>}
    ELSE UNION {{Append(p, b) : p \in pred_paths(g, D, a, y)} :
                   y \in {z \in Nodes : /\ g[z][b] # NoEdge
                                        /\ D[z] < Far
                                        /\ D[z] + g[z][b] = D[b]}}

\* p = [x for x in p if x < n]
strip_anchors(p) == SelectSeq(p, LAMBDA x : x < nvxs)

\* a variant of path[::-1] that leaves the order
Unreversed(p) == p

Reverse(p) == [i \in 1 .. Len(p) |-> p[Len(p) + 1 - i]]

\* the (a, b) pairs in the order of fill_path_cache's two loops
RECURSIVE cache_pairs(_, _, _)
cache_pairs(tocities, fromcities, i) ==
    IF i > Len(tocities) * Len(fromcities) THEN <<>>
    ELSE LET b == tocities[((i - 1) \div Len(fromcities)) + 1]
             a == fromcities[((i - 1) % Len(fromcities)) + 1]
         IN (IF a = b THEN <<>> ELSE << <<a, b>> >>)
            \o cache_pairs(tocities, fromcities, i + 1)

put(cache, key, val) == [k \in DOMAIN cache \cup {key} |-> IF k = key THEN val ELSE cache[k]]

\* the caches the loops can leave, with the exception they end in: the walk
\* over predecessors of an unreachable pair reads preds[i, -9999]
RECURSIVE fill(_, _, _, _)
fill(g, D, pairs, cache) ==
    IF pairs = <<>> THEN {<<cache, "running">>}
    ELSE LET a == Head(pairs)[1]
             b == Head(pairs)[2]
         IN IF D[a][b] >= Far THEN {<<cache, "IndexError">>}
            ELSE UNION {fill(g, D, Tail(pairs),
                             put(cache, <<a, b>>, [path |-> strip_anchors(p), cost |-> D[a][b]])) :
                           p \in pred_paths(g, D[a], a, b)}

fill_path_cache_of(e, f, dh, edg, cs, cache) ==
    LET tocities == cs \o <<bottomright>>
        fromcities == cs \o <<topleft>>
        sources == {fromcities[i] : i \in 1 .. Len(fromcities)}
    IN UNION {fill(g, [a \in sources |-> dijkstra(g, a)],
                   cache_pairs(tocities, fromcities, 1), cache) :
                 g \in {graph(e, f, dh, edg)}}

fill_path_cache ==
    /\ Running("fill_path_cache")
    /\ edge' = extend_area(edge, ExtendRounds)
    /\ \E r \in fill_path_cache_of(elevation, flow, downhill, edge',
                                   big_cities(cities, territories), <<>>) :
         /\ path_cache' = r[1]
         /\ result' = r[2]
    /\ prog' = Tail(prog)
    /\ last' = <<"__init__", "fill_path_cache">>
    /\ UNCHANGED <<elevation, erodability, downhill, flow, slope, elevation_pts,
                   city_score, cities, nterr, territories, returned, woods,
                   tries, draws, queries>>

\* path = [u]; while path[-1] != end: path.append(best_dir[path[-1]])
RECURSIVE walk(_, _, _)
walk(best_dir, u, end) ==
    IF u = end THEN <<u>> ELSE <<u>> \o walk(best_dir, best_dir[u], end)

\* the two branches that write the cache in shortest_path
store(cache, u, end, flipped, path, cost) ==
    IF flipped THEN put(cache, <<end, u>>, [path |-> Reverse(path), cost |-> cost])
    ELSE put(cache, <<u, end>>, [path |-> path, cost |-> cost])

\* the lines of shortest_path after its loop
finish(start, end, flipped, best_dir, length, cache) ==
    LET path == walk(best_dir, start, end)
    IN [outcome |-> "return",
        path |-> IF flipped THEN Reverse(path) ELSE path,
        cost |-> length,
        cache |-> store(cache, start, end, flipped, path, length)]

\* the entries the loop of shortest_path pushes for the neighbours of u
pushes(end, best_dir, dist, u) ==
    {<<d[1] + d[2], d[1], d[3], u>> :
        d \in {<<dist + edge_weight(elevation, flow, downhill, w, u, FALSE),
                 (dist_vxs[end][w] * 85) \div 10, w>> :
                  w \in {adj_vxs[u][k] : k \in 1 .. 3} \ ({-1} \cup DOMAIN best_dir
                            \cup {x \in V : edge[u] /\ edge[x]})}}

\* the loop of shortest_path; heappop of an empty heap raises IndexError
RECURSIVE search(_, _, _, _, _, _, _)
search(start, end, flipped, best_dir, q, length, cache) ==
    IF start \in DOMAIN best_dir THEN finish(start, end, flipped, best_dir, length, cache)
    ELSE IF q = {}
    THEN [outcome |-> "IndexError", path |-> <<>>, cost |-> 0, cache |-> cache]
    ELSE LET t == heappop(q)
             dist == t[2]
             u == t[3]
             small == territories[u] < 2 ^ (sizemap - 3)
             bd == put(best_dir, u, t[4])
             c1 == IF small /\ territories[u] = u
                   THEN store(cache, u, end, flipped, walk(bd, u, end), dist)
                   ELSE cache
             len1 == IF small THEN dist ELSE length
         IN IF u \in DOMAIN best_dir
            THEN search(start, end, flipped, best_dir, q \ {t}, length, cache)
            ELSE IF /\ start >= nvxs
                    /\ edge[u]
                    /\ \/ start = topleft /\ near_corner(u)
                       \/ start = bottomright /\ far_corner(u)
            THEN finish(u, end, flipped, bd, len1, c1)
            ELSE search(start, end, flipped, bd,
                        (q \ {t}) \cup pushes(end, bd, dist, u), len1, c1)

\* shortest_path(start, end) on a cache miss; an anchor as the root of the
\* search indexes territories with a string
shortest_path_of(start, end, cache) ==
    IF start >= nvxs /\ end >= nvxs
    THEN [outcome |-> "IndexError", path |-> <<>>, cost |-> 0, cache |-> cache]
    ELSE IF end >= nvxs
    THEN search(end, start, TRUE, <<>>, {<<0, 0, start, -1>>}, 0, cache)
    ELSE search(start, end, FALSE, <<>>, {<<0, 0, end, -1>>}, 0, cache)

\* the endpoints the model queries
QueryPoints == {0, 1, 4, 8, topleft, bottomright}

shortest_path ==
    /\ prog = <<>>
    /\ result = "running"
    /\ last[2] \in {"fill_path_cache", "shortest_path"}
    /\ queries < MaxQueries
    /\ \E start \in QueryPoints, end \in QueryPoints :
         IF <<start, end>> \in DOMAIN path_cache
         THEN /\ returned' = [start |-> start, end |-> end, hit |-> TRUE,
                              outcome |-> "return",
                              path |-> path_cache[<<start, end>>].path,
                              cost |-> path_cache[<<start, end>>].cost]
              /\ UNCHANGED <<path_cache, result>>
         ELSE \E r \in {shortest_path_of(start, end, path_cache)} :
              /\ returned' = [start |-> start, end |-> end, hit |-> FALSE,
                              outcome |-> r.outcome, path |-> r.path, cost |-> r.cost]
              /\ path_cache' = r.cache
              /\ result' = IF r.outcome = "return" THEN result ELSE r.outcome
    /\ queries' = queries + 1
    /\ last' = <<"plot", "shortest_path">>
    /\ UNCHANGED <<hydro, woods, city_score, cities, nterr, territories, prog, tries, draws>>

-----------------------------------------------------------------------------
(* Heightmap fields.  A mode recipe writes elevation[:-1] and leaves the    *)
(* sentinel of build_grid (0); the fields below stand for what it wrote.    *)

Levels == {-5000, 10000, 30000}
RimLevels == {-5000, 20000}
Rim == {v \in V : calc_edges[v]}

Fields == {[i \in 0 .. nvxs |-> IF i = nvxs THEN 0 ELSE IF i \in Rim THEN r[i] ELSE c[i]] :
              r \in [Rim -> RimLevels], c \in [V \ Rim -> Levels]}

InitState(e, erod, p) ==
    /\ elevation = e
    /\ erodability = [v \in V |-> erod]
    /\ edge = calc_edges
    /\ downhill = [v \in V |-> -1]
    /\ flow = [v \in V |-> 0]
    /\ slope = [v \in V |-> 0]
    /\ elevation_pts = [q \in 0 .. (npts - 1) |-> 0]
    /\ city_score = [v \in V |-> <<0, 0>>]
    /\ cities = <<>>
    /\ nterr = 0
    /\ territories = [v \in V |-> -1]
    /\ path_cache = <<>>
    /\ returned = <<>>
    /\ forest_score = [v \in V |-> 0]
    /\ forests = {}
    /\ passes = 0
    /\ prog = p
    /\ last = <<"build_grid", "build_grid">>
    /\ tries = 0
    /\ draws = 0
    /\ queries = 0
    /\ result = "running"

\* the recipes with the erodability each sets (island: one random value)
Recipes == { <<shore_heightmap(30, 40), 1>>, <<island_heightmap, 1>>,
             <<island_heightmap, 50>>, <<desert_heightmap, 1>> }

\* nearly level land: a shelf whose steps are smaller than one erosion step
ShelfLevels == {10200, 10400}
ShelfFields == {[i \in 0 .. nvxs |-> IF i = nvxs THEN 0 ELSE IF i \in Rim THEN 9800
                                     ELSE IF i \in {0, 4, 8} THEN c[i] ELSE 10000] :
                   c \in [{0, 4, 8} -> ShelfLevels]}

InitHydro ==
    \E e \in Fields \cup ShelfFields, r \in Recipes : InitState(e, r[2], r[1] \o finalize)

NextHydro ==
    \/ calc_downhill
    \/ calc_flow
    \/ calc_slopes
    \/ erode
    \/ infill
    \/ pin
    \/ raise_sealevel
    \/ normalize_elevation
    \/ shift
    \/ calc_elevation_pts

SpecHydro == InitHydro /\ [][NextHydro]_vars

\* land fields with pits, eroded once and finalized; the program runs on:
\* infill takes the next pass of its loop whenever it has one
PitLevels == {10000, 30000, 50000}
PitFields == {[i \in 0 .. nvxs |-> IF i = nvxs THEN 0 ELSE IF i \in Rim THEN 20000
                                   ELSE IF i \in {0, 1, 4, 8} THEN c[i] ELSE 30000] :
                 c \in [{0, 1, 4, 8} -> PitLevels]}

InitInfill == \E e \in PitFields : InitState(e, 1, do_erosion(NumErosion, 500) \o finalize)

NextInfill ==
    \/ calc_downhill
    \/ calc_flow
    \/ calc_slopes
    \/ erode
    \/ infill
    \/ pin
    \/ calc_elevation_pts

SpecInfill == InitInfill /\ [][NextInfill]_vars /\ WF_vars(infill)

\* __init__ after the heightmap: finalize, cities, territories
settle ==
    finalize \o << <<"__init__", "place_cities", NumCities>>,
                   <<"place_cities", "place_cities_loop", NumCities>>,
                   <<"__init__", "grow_territory", 0>> >>

InitTerr == \E e \in Fields : InitState(e, 1, settle)

NextTerr ==
    \/ calc_downhill
    \/ calc_flow
    \/ calc_slopes
    \/ infill
    \/ calc_elevation_pts
    \/ place_cities
    \/ place_cities_loop
    \/ grow_territory

SpecTerr == InitTerr /\ [][NextTerr]_vars

\* __init__ from finalize to place_forests(n); the cities and territories
\* that come between leave the forest state alone
plant(n) ==
    finalize \o << <<"__init__", "place_forests", n>>,
                   <<"place_forests", "place_forests_loop", n>> >>

\* fields with a land rim and sea or land inside; the loop of place_forests
\* takes its next pass whenever it has one
WoodLevels == {-5000, 10000, 30000}
WoodFields == {[i \in 0 .. nvxs |-> IF i = nvxs THEN 0 ELSE IF i \in Rim THEN 20000
                                    ELSE IF i \in {0, 4, 5, 8} THEN c[i] ELSE -5000] :
                  c \in [{0, 4, 5, 8} -> WoodLevels]}

InitForest == \E e \in WoodFields, n \in ForestCounts : InitState(e, 1, plant(n))

NextForest ==
    \/ calc_downhill
    \/ calc_flow
    \/ calc_slopes
    \/ infill
    \/ calc_elevation_pts
    \/ place_forests
    \/ place_forests_loop

SpecForest == InitForest /\ [][NextForest]_vars /\ WF_vars(place_forests_loop)

\* __init__ after the heightmap, up to the cache of paths
route ==
    settle \o << <<"__init__", "fill_path_cache", 0>> >>

\* fields with a land rim and a steeper core, for the routing
CoreLevels == {-5000, 10000, 30000, 50000}
RingLevels == {-5000, 10000}
Core == {v \in V : \A k \in 1 .. 3 : adj_vxs[v][k] \notin Rim \cup {-1}}
RouteFields == {[i \in 0 .. nvxs |-> IF i = nvxs THEN 0 ELSE IF i \in Rim THEN 20000
                                     ELSE IF i \in Core THEN c[i] ELSE r[i]] :
                   c \in [Core -> CoreLevels], r \in [V \ (Core \cup Rim) -> RingLevels]}

\* fields whose boundary vertex 6 collects the flow of its neighbours
DipFields == {[i \in 0 .. nvxs |-> IF i = nvxs THEN 0 ELSE IF i = 6 THEN 5000
                                   ELSE IF i \in Rim THEN 20000
                                   ELSE IF i \in Core THEN (IF i = 8 THEN 10000 ELSE -5000)
                                   ELSE r[i]] :
                 r \in [V \ (Core \cup Rim) -> RingLevels]}

InitRoute == \E e \in RouteFields \cup DipFields : InitState(e, 1, route)

NextRoute ==
    \/ calc_downhill
    \/ calc_flow
    \/ calc_slopes
    \/ infill
    \/ calc_elevation_pts
    \/ place_cities
    \/ place_cities_loop
    \/ grow_territory
    \/ fill_path_cache
    \/ shortest_path

SpecRoute == InitRoute /\ [][NextRoute]_vars

-----------------------------------------------------------------------------
(* Claims on the hydrology engine, checked under SpecHydro *)

Returned(caller, op) == last = <<caller, op>>

\* the vertices met when following downhill from u, u included; seen guards
\* the walk against a cycle
RECURSIVE Chain(_, _, _)
Chain(dh, u, seen) ==
    IF dh[u] = -1 \/ dh[u] \in seen THEN seen
    ELSE Chain(dh, dh[u], seen \cup {dh[u]})

\* following downhill from u never comes back to a vertex already met
RECURSIVE NoRevisit(_, _, _)
NoRevisit(dh, u, seen) ==
    \/ dh[u] = -1
    \/ dh[u] \notin seen /\ NoRevisit(dh, dh[u], seen \cup {dh[u]})

\* C1: after finalize() has returned, every vertex with elevation > 0 that is
\* not on the boundary has a downhill neighbour: no land sink remains.
C1_DepressionFree ==
    Returned("finalize", "calc_elevation_pts") =>
        \A v \in V : (elevation[v] > 0 /\ ~edge[v]) => downhill[v] # -1

\* finalize has returned and its infill had to raise at least one basin
C1_Witness ==
    /\ Returned("finalize", "calc_elevation_pts")
    /\ tries >= 2
    /\ \E v \in V : elevation[v] > 0 /\ ~edge[v]

HydrologyOps == {"calc_downhill", "calc_flow", "calc_slopes", "erode", "infill",
                 "raise_sealevel"}

\* C3: the sentinel entry elevation[nvxs] is 0 before and after each
\* hydrology operation (calc_downhill, calc_flow, calc_slopes, erode, infill,
\* each do_erosion iteration, raise_sealevel, finalize).
C3_SentinelZero ==
    /\ (prog # <<>> /\ Head(prog)[2] \in HydrologyOps) => elevation[nvxs] = 0
    /\ (last[2] \in HydrologyOps \cup {"infill_iteration", "pin", "calc_elevation_pts"})
          => elevation[nvxs] = 0

\* C4: after calc_flow, a land vertex carries 1/n for every vertex whose
\* downhill chain passes through it (itself included), which is 1/n plus the
\* flow of the vertices draining into it; a vertex at or below sea level
\* carries 0; flow is never negative.  flow is in units of 1/n.
C4_FlowAccumulation ==
    last[2] = "calc_flow" =>
        \A v \in V :
            /\ elevation[v] > 0 =>
                 /\ flow[v] = Cardinality({u \in V : v \in Chain(downhill, u, {u})})
                 /\ flow[v] = 1 + SetSum(flow, {u \in V : downhill[u] = v})
            /\ elevation[v] <= 0 => flow[v] = 0
            /\ flow[v] >= 0

\* calc_flow has just run; a land vertex collects three vertices and a sea
\* vertex with a land vertex draining into it was zeroed
C4_Witness ==
    /\ last[2] = "calc_flow"
    /\ \E v \in V : elevation[v] > 0 /\ flow[v] >= 3
    /\ \E v, u \in V : elevation[v] <= 0 /\ downhill[u] = v /\ elevation[u] > 0

-----------------------------------------------------------------------------
(* Claims on the territories, checked under SpecTerr *)

\* the territory edges into v: (y, v) costs edge_weight(v, y, territory=True)
\* when the wavefront steps from the claimed y to the new v
territory_weights == [v \in V |-> [k \in 1 .. 3 |->
    IF adj_vxs[v][k] = -1 THEN -1
    ELSE edge_weight(elevation, flow, downhill, v, adj_vxs[v][k], TRUE)]]

RECURSIVE relax_territory(_, _)
relax_territory(W, D) ==
    LET D1 == [v \in V |->
            SetMin({D[v]} \cup
                   {D[adj_vxs[v][k]] + W[v][k] : k \in {j \in 1 .. 3 : adj_vxs[v][j] # -1}})]
    IN IF D1 = D THEN D ELSE relax_territory(W, D1)

\* the cheapest territory path cost from c to every vertex
territory_cost(c) ==
    CHOOSE D \in {relax_territory(W, [v \in V |-> IF v = c THEN 0 ELSE Far]) :
                     W \in {territory_weights}} : TRUE

\* C5: after grow_territory(k) every vertex is owned by one of the seed
\* cities cities[:k] (never -1), every seed owns its own vertex, and
\* big_cities is exactly the seed cities.
C5_TerritoryPartition ==
    Returned("__init__", "grow_territory") =>
        /\ \A v \in V : territories[v] \in seeds(cities, nterr)
        /\ \A c \in seeds(cities, nterr) : territories[c] = c
        /\ {big_cities(cities, territories)[i] :
               i \in 1 .. Len(big_cities(cities, territories))} = seeds(cities, nterr)

\* grow_territory(2) has returned and each of the two seeds owns a vertex
\* besides its own
C5_Witness ==
    /\ Returned("__init__", "grow_territory")
    /\ nterr = 2
    /\ Len(cities) = 2
    /\ \A i \in 1 .. 2 : \E v \in V : v # cities[i] /\ territories[v] = cities[i]

\* C6: after grow_territory(k) the owner of a vertex is a seed of least
\* accumulated territory edge cost to it.
C6_NearestSeed ==
    Returned("__init__", "grow_territory") =>
        \A D \in {[c \in seeds(cities, nterr) |-> territory_cost(c)]} :
            \A v \in V : \A c \in seeds(cities, nterr) :
                territories[v] \in seeds(cities, nterr) =>
                    D[territories[v]][v] <= D[c][v]

\* two seeds, and a vertex two steps from its owner that the other seed
\* reaches only at a strictly higher cost
C6_Witness ==
    /\ Returned("__init__", "grow_territory")
    /\ \E v \in V : \E c \in seeds(cities, nterr) :
         /\ c # territories[v]
         /\ \A k \in 1 .. 3 : adj_vxs[v][k] # territories[v]
         /\ v # territories[v]
         /\ territories[v] \in seeds(cities, nterr)
         /\ territory_cost(territories[v])[v] < territory_cost(c)[v]

-----------------------------------------------------------------------------
(* Claims on the routing, checked under SpecRoute *)

\* the sum of the travel weights along a path, in its direction
RECURSIVE path_weight(_)
path_weight(p) ==
    IF Len(p) < 2 THEN 0
    ELSE edge_weight(elevation, flow, downhill, p[1], p[2], FALSE) + path_weight(Tail(p))

\* every step of p is an edge of the routing graph
follows_adjacency(p) ==
    \A i \in 1 .. (Len(p) - 1) :
        /\ \E k \in 1 .. 3 : adj_vxs[p[i]][k] = p[i + 1]
        /\ ~(edge[p[i]] /\ edge[p[i + 1]])

\* the travel weight of slot k of v in the routing graph, Far where the
\* edge is missing or joins two boundary-flagged vertices
route_weights == [v \in V |-> [k \in 1 .. 3 |->
    IF adj_vxs[v][k] = -1 \/ (edge[v] /\ edge[adj_vxs[v][k]]) THEN Far
    ELSE edge_weight(elevation, flow, downhill, v, adj_vxs[v][k], FALSE)]]

\* the reference: the least travel cost from every vertex to b
route_cost(b) ==
    CHOOSE D \in {relax_territory(W, [v \in V |-> IF v = b THEN 0 ELSE Far]) :
                     W \in {route_weights}} : TRUE

Query == Returned("plot", "shortest_path") /\ returned.outcome = "return"
Miss == Query /\ ~returned.hit
Hit == Query /\ returned.hit

\* C7: a shortest_path call on two connected vertices a # b returns a path
\* from a to b along the adjacency whose travel cost, the sum of edge_weight
\* along it, is the least one from a to b, on a miss and on a hit.
C7_ShortestPath ==
    (Query /\ returned.start \in V /\ returned.end \in V /\ returned.start # returned.end) =>
        \A D \in {route_cost(returned.end)} :
            D[returned.start] < Far =>
                /\ returned.path[1] = returned.start
                /\ returned.path[Len(returned.path)] = returned.end
                /\ follows_adjacency(returned.path)
                /\ path_weight(returned.path) = D[returned.start]

\* C8: on a miss between two vertices the returned cost, which is also the
\* cost stored, is the sum of the edge weights along the returned path.
C8_CostIsPathWeight ==
    (Miss /\ returned.start \in V /\ returned.end \in V) =>
        returned.cost = path_weight(returned.path)

\* C9 as stated: two cache entries under (a, b) and (b, a) hold reversed
\* paths and equal costs.
C9_CacheSymmetry ==
    \A k \in DOMAIN path_cache :
        <<k[2], k[1]>> \in DOMAIN path_cache =>
            /\ path_cache[<<k[2], k[1]>>].path = Reverse(path_cache[k].path)
            /\ path_cache[<<k[2], k[1]>>].cost = path_cache[k].cost

\* C9 amended: two cache entries under (a, b) and (b, a) hold paths in
\* opposite directions between the same two vertices: the one under (a, b)
\* starts at a and ends at b, the one under (b, a) starts at b and ends at
\* a.  The sequences need not be reverses and the costs need not be equal.
C9_CacheOpposite ==
    \A k \in DOMAIN path_cache :
        <<k[2], k[1]>> \in DOMAIN path_cache =>
            /\ path_cache[k].path[1] = k[1]
            /\ path_cache[k].path[Len(path_cache[k].path)] = k[2]

\* entries under (a, b) and (b, a), each the least-cost path of its own
\* direction with its travel cost, that are not reverses and differ in cost
C9_Witness ==
    \E k \in DOMAIN path_cache :
        /\ k[1] # k[2]
        /\ <<k[2], k[1]>> \in DOMAIN path_cache
        /\ path_cache[<<k[2], k[1]>>].path # Reverse(path_cache[k].path)
        /\ path_cache[<<k[2], k[1]>>].cost # path_cache[k].cost
        /\ \A j \in {k, <<k[2], k[1]>>} :
              /\ path_cache[j].cost = path_weight(path_cache[j].path)
              /\ path_cache[j].cost = route_cost(j[2])[j[1]]

\* C10: after a miss the cache holds the returned pair under the key of
\* the query, vertex or anchor.
C10_MissIsCached ==
    Miss =>
        /\ <<returned.start, returned.end>> \in DOMAIN path_cache
        /\ path_cache[<<returned.start, returned.end>>] =
               [path |-> returned.path, cost |-> returned.cost]

\* the vertices an endpoint stands for: the boundary-strip vertices of its
\* half-plane for an anchor, itself for a vertex
endpoints(x) ==
    IF x = topleft THEN {u \in V : edge[u] /\ near_corner(u)}
    ELSE IF x = bottomright THEN {u \in V : edge[u] /\ far_corner(u)}
    ELSE {x}

\* a path of the routing graph joins a to b
connected(a, b) ==
    \E t \in endpoints(b) : \A D \in {route_cost(t)} : \E s \in endpoints(a) : D[s] < Far

\* C11, shortest_path: a call on two endpoints that no path joins does not
\* return and leaves no cache entry for them.
C11_QueryUnreachable ==
    (Returned("plot", "shortest_path") /\ ~connected(returned.start, returned.end)) =>
        /\ returned.outcome # "return"
        /\ <<returned.start, returned.end>> \notin DOMAIN path_cache

\* C11: when no path joins two endpoints, fill_path_cache and shortest_path
\* neither return nor cache a (path, cost) for them.
C11_Unreachable ==
    /\ C11_QueryUnreachable
    /\ Returned("__init__", "fill_path_cache") =>
           \A k \in DOMAIN path_cache : connected(k[1], k[2])

-----------------------------------------------------------------------------
(* Claims on place_cities, checked under SpecTerr *)

\* C12: every vertex place_cities has put in cities is land.
C12_NoSeaCity ==
    \A i \in 1 .. Len(cities) : elevation[cities[i]] > 0

\* the candidates left: the land vertices strictly inside the central region
\* that the loop has not drawn yet (a draw costs its vertex 0.01 / 1e-9)
pool == {v \in V : elevation[v] > 0 /\ central(v) /\ city_score[v][1] = 0}

\* C13: a pass of place_cities' loop that finds the pool empty and fewer
\* than n cities placed returns, with the cities as they are.
C13_StopsEarly ==
    [][(Running("place_cities_loop") /\ pool = {} /\ Len(cities) < Head(prog)[3])
          => (prog' = Tail(prog) /\ cities' = cities)]_vars

-----------------------------------------------------------------------------
(* Claims on infill and raise_sealevel, checked under SpecHydro *)

\* C14: every run of infill ends: its loop reaches the pass where get_sinks
\* finds no sink and returns (or no sill exists and the assertion stops it).
C14_InfillTerminates ==
    Running("infill") ~> (last[2] = "infill" \/ result = "AssertionError")

\* infill has returned after three raises
C14_Witness ==
    /\ last[2] = "infill"
    /\ tries >= 3

\* the pass of infill's loop selects the sill c of a single-vertex basin: the
\* sink vertex c[1] is non-boundary land, alone in its basin and strictly
\* lower than its three neighbours, none of which is in a sink
single_pit(sinks, c) ==
    /\ ~edge[c[1]]
    /\ elevation[c[1]] > 0
    /\ {i \in V : sinks[i] = sinks[c[1]]} = {c[1]}
    /\ \A k \in 1 .. 3 :
          /\ adj_vxs[c[1]][k] # -1
          /\ elevation[adj_vxs[c[1]][k]] > elevation[c[1]]
          /\ sinks[adj_vxs[c[1]][k]] = -1

\* the least elevation among the neighbours of x
min_neighbour(x) == SetMin({elevation[adj_vxs[x][k]] : k \in 1 .. 3})

percentile_tolerance == 2 * Eps

\* C16: when raise_sealevel(perc) returns, the perc-th percentile of the
\* elevation array it leaves is 0 within the tolerance.
C16_PercentileZero ==
    [][(Running("raise_sealevel") /\ prog' = Tail(prog))
          => Abs(percentile(elevation', Head(prog)[3])) <= percentile_tolerance]_vars

\* v has a neighbour strictly lower than itself
has_lower_neighbour(v) ==
    \E k \in 1 .. 3 : adj_vxs[v][k] # -1 /\ elevation[adj_vxs[v][k]] < elevation[v]

\* C17: at the end of a do_erosion iteration, after erode and the infill
\* that follows it, every non-boundary vertex with elevation > 0 has a
\* strictly lower neighbour.
C17_NoSinkAfterErosion ==
    (last[1] = "do_erosion" /\ last[2] \in {"infill", "pin"}) =>
        \A v \in V : (elevation[v] > 0 /\ ~edge[v]) => has_lower_neighbour(v)

\* the steps by which a heightmap recipe itself writes the elevation array
SynthesisWrites == {"normalize_elevation", "shift"}

\* C18: each step of heightmap synthesis that writes the elevation array
\* (normalize_elevation in shore, the final shift in desert) leaves the
\* sentinel entry elevation[nvxs] at 0.
C18_SynthesisKeepsSentinel ==
    last[2] \in SynthesisWrites => elevation[nvxs] = 0

-----------------------------------------------------------------------------
(* Claims on the queue of grow_territory, checked under SpecTerr *)

\* grow_territory's loop with the queue kept as the sequence of its entries
\* in push order: TRUE iff every heappop takes an entry before which no
\* entry of the same accumulated cost was pushed
RECURSIVE pops_in_push_order(_, _, _, _, _)
pops_in_push_order(e, f, dh, done, q) ==
    IF q = <<>> THEN TRUE
    ELSE LET t == heappop({q[i] : i \in 1 .. Len(q)})
             at == CHOOSE i \in 1 .. Len(q) : q[i] = t /\ \A j \in 1 .. (i - 1) : q[j] # t
             rest == SubSeq(q, 1, at - 1) \o SubSeq(q, at + 1, Len(q))
             vx == t[2]
             done1 == [done EXCEPT ![vx] = t[3]]
             open == SelectSeq(adj_vxs[vx], LAMBDA u : u # -1 /\ done1[u] = -1)
             pushed == [k \in 1 .. Len(open) |->
                          <<t[1] + edge_weight(e, f, dh, open[k], vx, TRUE), open[k], t[3]>>]
         IN /\ \A j \in 1 .. (at - 1) : q[j][1] # t[1]
            /\ IF done[vx] # -1 THEN pops_in_push_order(e, f, dh, done, rest)
               ELSE pops_in_push_order(e, f, dh, done1, rest \o pushed)

\* the queue after the pushes of lines 698-699
seed_queue(cs, n) == [i \in 1 .. Min2(n, Len(cs)) |-> <<0, cs[i], cs[i]>>]

\* C19 as stated: in grow_territory, queue entries of equal accumulated cost
\* are popped in the order they were pushed.
C19_PopsInPushOrder ==
    Returned("__init__", "grow_territory") =>
        pops_in_push_order(elevation, flow, downhill, [v \in V |-> -1],
                           seed_queue(cities, nterr))

\* C19, amended: entries of equal accumulated cost are popped in ascending
\* order of (vertex, capital), so a vertex that several seeds reach at the
\* same least cost goes to the seed of least vertex index among them.
C19_TieToLowerIndex ==
    Returned("__init__", "grow_territory") =>
        \A D \in {[c \in seeds(cities, nterr) |-> territory_cost(c)]} :
            \A v \in V : \A c \in seeds(cities, nterr) :
                (territories[v] \in seeds(cities, nterr) /\ D[c][v] = D[territories[v]][v])
                    => territories[v] <= c

\* two seeds reach a vertex at the same least cost, and the seed that
\* comes first in cities is the one of greater index
C19_Witness ==
    /\ Returned("__init__", "grow_territory")
    /\ nterr >= 2 /\ Len(cities) >= 2
    /\ cities[1] > cities[2]
    /\ \E v \in V : /\ territories[v] = cities[2]
                    /\ territory_cost(cities[1])[v] = territory_cost(cities[2])[v]

-----------------------------------------------------------------------------
(* Claims on the opportunistic caching of shortest_path, under SpecRoute *)

\* the number of vertices in the territory of capital u
territory_size(u) == Cardinality({v \in V : territories[v] = u})

\* the key under which shortest_path stores the path it returns
final_key(r) == <<r.path[1], r.path[Len(r.path)]>>

\* the capital of an entry cached on the way: the key is (u, end), or
\* (end, u) when the query ended at an anchor and the search was flipped
cached_capital(r, k) == IF r.end >= nvxs THEN k[2] ELSE k[1]

\* C20: a search caches the path from a finalized capital u back to its
\* origin only when the territory of u has fewer than 2 ** (sizemap - 3)
\* vertices.
C20_CachesSmallTerritory ==
    [][(last' = <<"plot", "shortest_path">> /\ ~returned'.hit) =>
          \A k \in (DOMAIN path_cache') \ (DOMAIN path_cache) :
              \/ returned'.outcome = "return" /\ k = final_key(returned')
              \/ territory_size(cached_capital(returned', k)) < 2 ^ (sizemap - 3)]_vars

-----------------------------------------------------------------------------
(* Claims on the graph and the frame of the routing, under SpecRoute *)

\* the matrix g that fill_path_cache has just built: it reads the fields
\* and the boundary flags its extend_area left
built_graph == graph(elevation, flow, downhill, edge)

\* C21: in the graph of fill_path_cache the far-corner node n + 1 has
\* incoming edges only from boundary-strip vertices with x - y > 0.5, the
\* near-corner node n has outgoing edges only to boundary-strip vertices
\* with x - y < -0.5, each of cost 1e-12 (0 here), and no other edge touches
\* the two anchors, a missing neighbour slot included.
C21_AnchorEdges ==
    Returned("__init__", "fill_path_cache") =>
        \A g \in {built_graph} : \A x \in Nodes :
            /\ g[x][bottomright] # NoEdge =>
                  (x \in V /\ edge[x] /\ far_corner(x) /\ g[x][bottomright] = 0)
            /\ g[topleft][x] # NoEdge =>
                  (x \in V /\ edge[x] /\ near_corner(x) /\ g[topleft][x] = 0)
            /\ g[x][topleft] = NoEdge
            /\ g[bottomright][x] = NoEdge

\* C22: fill_path_cache, shortest_path and extend_area leave the boundary
\* flags as calc_edges computed them.
C22_EdgeUnchanged == edge = calc_edges

\* C23: no step removes a key of the path cache or replaces the (path, cost)
\* stored under it; the searches of shortest_path only add entries.
C23_CacheOnlyGrows ==
    [][\A k \in DOMAIN path_cache :
          k \in DOMAIN path_cache' /\ path_cache'[k] = path_cache[k]]_vars

-----------------------------------------------------------------------------
(* Claims on the frame of infill, checked under SpecHydro *)

\* C24: a pass of infill's loop changes the elevation only of vertices of
\* the basin it selected: every other entry, the non-sink end of the sill
\* edge included, keeps its value, and no entry is lowered.
C24_InfillFrame ==
    [][(Running("infill") /\ last'[2] = "infill_iteration") =>
          \A sinks \in {get_sinks(elevation, downhill, edge)} :
             /\ \A i \in 0 .. nvxs : elevation'[i] >= elevation[i]
             /\ \E c \in find_lowest_sill(elevation, sinks) :
                   \A i \in 0 .. nvxs :
                      elevation'[i] # elevation[i] => (i < nvxs /\ sinks[i] = sinks[c[1]])]_vars

-----------------------------------------------------------------------------
(* Claims on place_forests, checked under SpecForest *)

land == {v \in V : elevation[v] > 0}

\* the loop of place_forests leaves by its while condition or by its break
forest_stop ==
    /\ prog' = Tail(prog)
    /\ \/ ~below_quota(forests, Head(prog)[3])
       \/ forest_score[argmax_first(forest_score)] = forest_sentinel
    /\ forest_score' = forest_score

\* the pass chooses a land vertex that was still a candidate and puts it
\* out of the running, and no vertex comes back into the running
forest_pick ==
    \A v \in {argmax_first(forest_score)} :
        /\ elevation[v] > 0
        /\ forest_score[v] # forest_sentinel
        /\ forest_score'[v] = forest_sentinel
        /\ \A u \in V : forest_score[u] = forest_sentinel => forest_score'[u] = forest_sentinel

\* C25: place_forests terminates: every step of its loop either stops (quota
\* reached or best score the sentinel) or disqualifies for good one land
\* vertex that was still a candidate, so no vertex is chosen twice, no sea
\* vertex is chosen, and the body runs at most (land vertices + 1) times
\* whatever the acceptances are.
C25_ForestsTerminate ==
    /\ [][Running("place_forests_loop") => (forest_stop \/ forest_pick)]_vars
    /\ [](passes <= Cardinality(land) + 1)
    /\ Running("place_forests_loop") ~> (last = <<"place_forests", "return">>)

\* place_forests has returned by its break after a pass for every land
\* vertex, with a vertex refused on the way and the quota not reached
C25_Witness ==
    /\ last = <<"place_forests", "return">>
    /\ passes = Cardinality(land) + 1
    /\ passes >= 4
    /\ forests # {}
    /\ \E v \in land : in_map(v) /\ ~(cells_of(v) \subseteq forests)

====
